---- MODULE Spec2Model ----
(***************************************************************************)
(* Schema validation engine of brielov/runtime.                            *)
(*                                                                         *)
(* Two schema modules live in the repository: src/src/schema.ts (built on  *)
(* the function-style Result of src/src/result.ts) and the schema part of  *)
(* src/src/mod.ts (built on a method-style Result).  Both are modelled; a  *)
(* schema value remembers which module's constructor built it (field src). *)
(*                                                                         *)
(* JavaScript values are tagged records.  Objects with identity (arrays,   *)
(* keyed objects, dates) carry a ref; ref 0 is an object allocated by the  *)
(* caller, refs >= 1 are allocated by the engine during a call.            *)
(* ParseError objects are the only objects the engine mutates (unshift on  *)
(* error.path), so they live in a heap indexed by ref.                     *)
(***************************************************************************)
EXTENDS Integers, Sequences, FiniteSets, TLC

VARIABLES schema, input, result, heap, next, log, raised, ncalls, before,
          calls

vars == <<schema, input, result, heap, next, log, raised, ncalls, before,
          calls>>

(* ------------------------------ bounds -------------------------------- *)
MaxLen == 2
MaxCalls == 2
MaxCallers == 2
MaxAllocs == 16

(* --------------------------- JavaScript values ------------------------ *)
Undefined == [t |-> "undefined"]
Null == [t |-> "null"]
Str(s) == [t |-> "string", s |-> s]
Num(n) == [t |-> "number", kind |-> "finite", n |-> n]
NaN == [t |-> "number", kind |-> "NaN", n |-> 0]
Infinity == [t |-> "number", kind |-> "Infinity", n |-> 0]
NegInfinity == [t |-> "number", kind |-> "-Infinity", n |-> 0]
Bool(b) == [t |-> "boolean", b |-> b]
DateV(ref, time) == [t |-> "date", ref |-> ref, time |-> time]
Arr(ref, items) == [t |-> "array", ref |-> ref, items |-> items]
Obj(ref, proto, entries) ==
  [t |-> "object", ref |-> ref, proto |-> proto, entries |-> entries]
Entry(k, v) == [k |-> k, v |-> v]
Fn(name) == [t |-> "function", name |-> name]

typeof(v) ==
  CASE v.t = "undefined" -> "undefined"
    [] v.t = "string" -> "string"
    [] v.t = "number" -> "number"
    [] v.t = "boolean" -> "boolean"
    [] v.t = "function" -> "function"
    [] OTHER -> "object"

NumberIsFinite(v) == v.t = "number" /\ v.kind = "finite"
ArrayIsArray(v) == v.t = "array"

ObjectGetPrototypeOf(v) ==
  CASE v.t = "object" -> v.proto
    [] v.t = "array" -> "Array.prototype"
    [] v.t = "date" -> "Date.prototype"
    [] v.t = "string" -> "String.prototype"
    [] v.t = "number" -> "Number.prototype"
    [] v.t = "boolean" -> "Boolean.prototype"
    [] v.t = "function" -> "Function.prototype"
    [] v.t = "option" -> "Object.prototype"

(* input instanceof Date: Date.prototype is on the prototype chain.  True
   of a date and of an ordinary object created with Date.prototype as its
   prototype. *)
instanceofDate(v) ==
  v.t \in {"date", "object"} /\ ObjectGetPrototypeOf(v) = "Date.prototype"

Digits == <<"0", "1", "2", "3", "4", "5", "6", "7", "8", "9">>

RECURSIVE toString(_)
toString(i) ==
  IF i < 10 THEN Digits[i + 1]
  ELSE toString(i \div 10) \o Digits[(i % 10) + 1]

Keys(entries) == [j \in 1..Len(entries) |-> entries[j].k]
HasKey(entries, k) == \E j \in 1..Len(entries) : entries[j].k = k
Lookup(entries, k) ==
  entries[CHOOSE j \in 1..Len(entries) : entries[j].k = k].v

(* The own property obj[k], undefined when obj has no own key k. *)
OwnProp(obj, k) ==
  IF HasKey(obj.entries, k) THEN Lookup(obj.entries, k) ELSE Undefined

(* Object.prototype: its prototype is null; its own members are the
   constructor, the methods every ordinary object inherits, and the
   accessor __proto__, which on Object.prototype itself reads null. *)
ObjectPrototypeMethods ==
  <<"__defineGetter__", "__defineSetter__", "hasOwnProperty",
    "__lookupGetter__", "__lookupSetter__", "isPrototypeOf",
    "propertyIsEnumerable", "toString", "valueOf", "toLocaleString">>

ObjectPrototype ==
  Obj(0, "null",
      <<Entry("constructor", Fn("Object"))>>
        \o [j \in 1..Len(ObjectPrototypeMethods) |->
              Entry(ObjectPrototypeMethods[j], Fn(ObjectPrototypeMethods[j]))]
        \o <<Entry("__proto__", Null)>>)

(* Date.prototype: an ordinary object whose prototype is Object.prototype;
   its own members are the constructor and the methods of dates. *)
DatePrototypeMethods ==
  <<"toString", "toDateString", "toTimeString", "toISOString",
    "toUTCString", "toGMTString", "getDate", "setDate", "getDay",
    "getFullYear", "setFullYear", "getHours", "setHours",
    "getMilliseconds", "setMilliseconds", "getMinutes", "setMinutes",
    "getMonth", "setMonth", "getSeconds", "setSeconds", "getTime",
    "setTime", "getTimezoneOffset", "getUTCDate", "setUTCDate",
    "getUTCDay", "getUTCFullYear", "setUTCFullYear", "getUTCHours",
    "setUTCHours", "getUTCMilliseconds", "setUTCMilliseconds",
    "getUTCMinutes", "setUTCMinutes", "getUTCMonth", "setUTCMonth",
    "getUTCSeconds", "setUTCSeconds", "valueOf", "getYear", "setYear",
    "toJSON", "toLocaleString", "toLocaleDateString",
    "toLocaleTimeString">>

DateMethod(name) == "Date.prototype." \o name

DatePrototype ==
  Obj(0, "Object.prototype",
      <<Entry("constructor", Fn("Date"))>>
        \o [j \in 1..Len(DatePrototypeMethods) |->
              Entry(DatePrototypeMethods[j],
                    Fn(DateMethod(DatePrototypeMethods[j])))])

(* The prototype of the instances of a class declared without members:
   it holds the constructor and inherits from Object.prototype. *)
ClassPrototype ==
  Obj(0, "Object.prototype", <<Entry("constructor", Fn("Class"))>>)

(* The object a prototype stands for. *)
PrototypeObject(proto) ==
  CASE proto = "Object.prototype" -> ObjectPrototype
    [] proto = "Date.prototype" -> DatePrototype
    [] proto = "Class.prototype" -> ClassPrototype

(* input[key]: the own property, else the property found along the
   prototype chain, undefined when no object of the chain has the key.
   The accessor __proto__, inherited from Object.prototype, reads the
   prototype of the object it is read from. *)
RECURSIVE GetProp(_, _)
GetProp(obj, k) ==
  IF HasKey(obj.entries, k) THEN Lookup(obj.entries, k)
  ELSE IF obj.proto = "null" THEN Undefined
  ELSE IF k = "__proto__" THEN PrototypeObject(obj.proto)
  ELSE GetProp(PrototypeObject(obj.proto), k)

(* A property name is an array index when it is the canonical decimal
   form of an integer from 0 to 2^32 - 2: digits only, no leading zero,
   and not above "4294967294".  Such keys enumerate first, in ascending
   numeric order; every other name, longer integers included, is an
   ordinary string key.  Names are compared digit by digit. *)
MaxArrayIndex == "4294967294"

IsDigit(ch) == \E d \in 1..10 : Digits[d] = ch
DigitOf(ch) == (CHOOSE d \in 1..10 : Digits[d] = ch) - 1

RECURSIVE AllDigits(_)
AllDigits(k) == k = "" \/ (IsDigit(Head(k)) /\ AllDigits(Tail(k)))

(* k1 < k2 for digit strings of the same length. *)
RECURSIVE DigitsLess(_, _)
DigitsLess(k1, k2) ==
  /\ k1 # ""
  /\ \/ DigitOf(Head(k1)) < DigitOf(Head(k2))
     \/ Head(k1) = Head(k2) /\ DigitsLess(Tail(k1), Tail(k2))

(* k1 < k2 as numbers, for canonical digit strings. *)
IndexLess(k1, k2) ==
  \/ Len(k1) < Len(k2)
  \/ Len(k1) = Len(k2) /\ DigitsLess(k1, k2)

IsIndexKey(k) ==
  /\ k # ""
  /\ AllDigits(k)
  /\ Head(k) = "0" => k = "0"
  /\ k = MaxArrayIndex \/ IndexLess(k, MaxArrayIndex)

RECURSIVE SortedIndexKeys(_)
SortedIndexKeys(ks) ==
  IF ks = {} THEN <<>>
  ELSE LET m == CHOOSE k \in ks : \A o \in ks \ {k} : IndexLess(k, o)
       IN <<m>> \o SortedIndexKeys(ks \ {m})

(* for (const key in shape): integer keys ascending, then the string keys
   in insertion order. *)
ForInKeys(entries) ==
  LET ks == Keys(entries) IN
  SortedIndexKeys({ks[j] : j \in {i \in 1..Len(ks) : IsIndexKey(ks[i])}})
    \o SelectSeq(ks, LAMBDA k : ~IsIndexKey(k))

(* ------------------------------ util.ts ------------------------------- *)
isNil(value) == typeof(value) = "undefined" \/ value.t = "null"

isPlainObject(in) ==
  IF isNil(in) THEN FALSE
  ELSE LET proto == ObjectGetPrototypeOf(in)
       IN proto = "null" \/ proto = "Object.prototype"

(* ----------------------------- option.ts ------------------------------ *)
Some(value) == [t |-> "option", some |-> TRUE, value |-> value]
None == [t |-> "option", some |-> FALSE, value |-> Undefined]
from(value) == IF isNil(value) THEN None ELSE Some(value)

(* ----------------------------- result.ts ------------------------------ *)
Ok(value) == [ok |-> TRUE, value |-> value, error |-> 0]
Err(error) == [ok |-> FALSE, value |-> Undefined, error |-> error]
isOk(res) == res.ok
isErr(res) == ~res.ok
(* A function value passed as an argument is named; Call applies it. *)
Call(fn, value) ==
  CASE fn = "from" -> from(value)
    [] fn = "Some" -> Some(value)
(* map = match(result, (value) => Ok(fn(value)), () => result), with
   match(result, onOk, onErr) = isOk(result) ? onOk(value) : onErr(error). *)
map(res, fn) == IF isOk(res) THEN Ok(Call(fn, res.value)) ELSE res

(* An exception (raise(message, cause) of util.ts, or a TypeError of the
   runtime) abandons the call: st.raised records its message and every
   caller up to the root passes it on. *)
raise(st, message) == [st EXCEPT !.raised = message]
unwrap(st, res) ==
  IF isOk(res) THEN [st |-> st, val |-> res.value]
  ELSE [st |-> raise(st, "called 'Result.unwrap' on an 'Err' value"),
        val |-> Undefined]
(* The Result a call is left with when an exception escapes it; raised
   tells it apart and nothing reads it. *)
Thrown == Err(0)
unwrapErr(st, res) ==
  IF isErr(res) THEN [st |-> st, val |-> res.error]
  ELSE [st |-> raise(st, "called 'Result.unwrapErr' on an 'Ok' value"),
        val |-> 0]

(* ------------------------- engine call state -------------------------- *)
(* st = [heap, next, log, raised]: the ParseError heap, the next free ref,
   the schemas invoked so far in this call (with the location each was
   invoked at) and the message of a raised exception ("" when none). *)
alloc(st) == [st EXCEPT !.next = @ + 1]
(* Mutant of unshift: the segment is appended (push). *)
push(st, error, seg) ==
  [st EXCEPT !.heap[error].path = Append(@, seg)]
unshift(st, error, seg) ==
  [st EXCEPT !.heap[error].path = <<seg>> \o @]
Ret(st, res) == [st |-> st, res |-> res]

(* ---------------------- input.getTime() (line 58) --------------------- *)
Val(st, val) == [st |-> st, val |-> val]
Throw(st, name) == Val(raise(st, name), Undefined)
IsObject(v) == v.t \in {"object", "array", "date", "function", "option"}

(* The built-in function named f called as a method of the ordinary
   object this (not a date), without arguments.  For an exception of the
   runtime the class is recorded (TypeError, RangeError); the text of its
   message belongs to the engine and is not part of the program.  stack holds the built-ins
   already on the call stack: a built-in entered again with the same
   receiver and no arguments recurses until the stack overflows.
   Invoke is this[k](), which throws when this[k] is not a function.
   ToPrimitive is the conversion of this to a primitive with hint number:
   the methods named by names (valueOf, then toString) are tried in turn,
   one that is not a function or that returns an object is passed over. *)
RECURSIVE Apply(_, _, _, _)
RECURSIVE Invoke(_, _, _, _, _)
RECURSIVE ToPrimitive(_, _, _, _)
Apply(st, f, this, stack) ==
  IF f \in stack
  THEN Throw(st, "RangeError")
  ELSE CASE f = "Object" ->
              Val(alloc(st), Obj(st.next, "Object.prototype", <<>>))
         [] f = "Date" -> Val(st, Str("Date()"))
         [] f = "Class" ->
              Throw(st, "TypeError")
         [] f \in {"__defineGetter__", "__defineSetter__"} ->
              Throw(st, "TypeError")
         [] f \in {"hasOwnProperty", "propertyIsEnumerable"} ->
              Val(st, Bool(HasKey(this.entries, "undefined")))
         [] f \in {"__lookupGetter__", "__lookupSetter__"} ->
              Val(st, Undefined)
         [] f = "isPrototypeOf" -> Val(st, Bool(FALSE))
         [] f = "toString" -> Val(st, Str("[object Object]"))
         [] f = "valueOf" -> Val(st, this)
         [] f = "toLocaleString" ->
              Invoke(st, this, "toString", stack \cup {f}, TRUE)
         [] f = DateMethod("toJSON") ->
              LET tv == ToPrimitive(st, this, <<"valueOf", "toString">>,
                                   stack \cup {f})
              IN IF tv.st.raised # "" THEN tv
                 ELSE IF tv.val.t = "number" /\ ~NumberIsFinite(tv.val)
                 THEN Val(tv.st, Null)
                 ELSE Invoke(tv.st, this, "toISOString", stack \cup {f},
                             TRUE)
         [] f \in {DateMethod(DatePrototypeMethods[j]) :
                     j \in 1..Len(DatePrototypeMethods)} ->
              Throw(st, "TypeError")

Invoke(st, this, k, stack, strict) ==
  LET f == GetProp(this, k)
  IN IF typeof(f) = "function" THEN Apply(st, f.name, this, stack)
     ELSE IF strict THEN Throw(st, "TypeError")
     ELSE Val(st, this)

ToPrimitive(st, this, names, stack) ==
  IF names = <<>>
  THEN Throw(st, "TypeError")
  ELSE LET r == Invoke(st, this, Head(names), stack, FALSE)
       IN IF r.st.raised # "" \/ ~IsObject(r.val) THEN r
          ELSE ToPrimitive(r.st, this, Tail(names), stack)

(* input.getTime(), evaluated once input instanceof Date holds.  A date
   has no property of its own, so the lookup finds Date.prototype.getTime,
   which returns the time value.  An ordinary object that inherits from
   Date.prototype may hold a getTime of its own; without one the lookup
   finds Date.prototype.getTime, which throws on a receiver that is not a
   date. *)
getTime(st, d) ==
  IF d.t = "date" THEN Val(st, d.time)
  ELSE Invoke(st, d, "getTime", {}, TRUE)

(* ----------------------------- schema.ts ------------------------------ *)
(* Mutant of createErr: an error already made for the same message and
   input is handed out again instead of a new one. *)
createErr_cached(st, message, in) ==
  LET same == {id \in DOMAIN st.heap :
                 /\ "message" \in DOMAIN st.heap[id]
                 /\ st.heap[id].message = message
                 /\ st.heap[id].input = in}
  IN IF same # {} THEN Ret(st, Err(CHOOSE id \in same : TRUE))
     ELSE Ret([alloc(st) EXCEPT !.heap =
                 (st.next :> [path |-> <<>>, message |-> message,
                              input |-> in]) @@ @],
              Err(st.next))

createErr(st, message, in) ==
  Ret([alloc(st) EXCEPT !.heap =
         (st.next :> [path |-> <<>>, message |-> message, input |-> in]) @@ @],
      Err(st.next))

Spread(child, rec) ==
  IF "shape" \in DOMAIN child THEN rec @@ [shape |-> child.shape] ELSE rec

string == [src |-> "schema", type |-> "string", parse |-> "string"]
number == [src |-> "schema", type |-> "number", parse |-> "number"]
boolean == [src |-> "schema", type |-> "boolean", parse |-> "boolean"]
date == [src |-> "schema", type |-> "date", parse |-> "date"]
array(child) ==
  [src |-> "schema", type |-> "array<" \o child.type \o ">", parse |-> "array",
   schema |-> child]
object(shape) ==
  [src |-> "schema", shape |-> shape, type |-> "object", parse |-> "object"]
optional(child) ==
  Spread(child, [src |-> "schema", type |-> "option<" \o child.type \o ">",
                 parse |-> "optional", schema |-> child])
defaulted(child, defaultValue) ==
  Spread(child, [src |-> "schema", type |-> child.type, parse |-> "defaulted",
                 schema |-> child, defaultValue |-> defaultValue])

string_parse(st, in) ==
  IF typeof(in) = "string" THEN Ret(st, Ok(in))
  ELSE createErr(st, "Expecting string", in)

number_parse(st, in) ==
  IF typeof(in) = "number" /\ NumberIsFinite(in) THEN Ret(st, Ok(in))
  ELSE createErr(st, "Expecting number", in)

boolean_parse(st, in) ==
  IF typeof(in) = "boolean" THEN Ret(st, Ok(in))
  ELSE createErr(st, "Expecting boolean", in)

(* Ok(new Date(input)): a fresh date object with the same time value. *)
date_parse(st, in) ==
  IF ~instanceofDate(in) THEN createErr(st, "Expecting valid date", in)
  ELSE LET time == getTime(st, in)
       IN IF time.st.raised # "" THEN Ret(time.st, Thrown)
          ELSE IF NumberIsFinite(time.val)
          THEN Ret(alloc(st), Ok(DateV(st.next, time.val)))
          ELSE createErr(st, "Expecting valid date", in)

RECURSIVE parse(_, _, _, _)
RECURSIVE array_loop(_, _, _, _, _, _, _)
RECURSIVE object_loop(_, _, _, _, _, _, _, _)
RECURSIVE mod_array_loop(_, _, _, _, _, _, _)
RECURSIVE mod_object_loop(_, _, _, _, _, _, _, _)

(* for (let i = 0; i < input.length; i++) of array.parse; arr is the part
   of the new array filled so far, ref the new array's identity. *)
array_loop(st, child, in, i, arr, ref, loc) ==
  IF ~(i < Len(in.items)) THEN Ret(st, Ok(Arr(ref, arr)))
  ELSE LET r == parse(child, in.items[i + 1], st, Append(loc, toString(i)))
       IN IF r.st.raised # "" THEN r
          ELSE IF isErr(r.res)
          THEN Ret(unshift(r.st, r.res.error, toString(i)), r.res)
          ELSE array_loop(r.st, child, in, i + 1, Append(arr, r.res.value),
                          ref, loc)

array_parse(st, self, in, loc) ==
  IF ~ArrayIsArray(in) THEN createErr(st, "Expecting array", in)
  ELSE array_loop(alloc(st), self.schema, in, 0, <<>>, st.next, loc)

(* for (const key in shape) of object.parse; keys is the enumeration of
   the shape, j the position in it, entries the new object so far. *)
object_loop(st, shape, keys, in, j, entries, ref, loc) ==
  IF j > Len(keys) THEN Ret(st, Ok(Obj(ref, "null", entries)))
  ELSE LET key == keys[j]
           r == parse(Lookup(shape, key), GetProp(in, key), st,
                      Append(loc, key))
       IN IF r.st.raised # "" THEN r
          ELSE IF isErr(r.res)
          THEN Ret(unshift(r.st, r.res.error, key), r.res)
          ELSE object_loop(r.st, shape, keys, in, j + 1,
                           Append(entries, Entry(key, r.res.value)), ref, loc)

(* Mutant of object_parse: the new object starts as a copy of the input's
   own properties that the shape does not name. *)
object_parse_copy(st, self, in, loc) ==
  IF ~isPlainObject(in) THEN createErr(st, "Expecting object", in)
  ELSE object_loop(alloc(st), self.shape, ForInKeys(self.shape), in, 1,
                   SelectSeq(in.entries,
                             LAMBDA en : ~HasKey(self.shape, en.k)),
                   st.next, loc)

object_parse(st, self, in, loc) ==
  IF ~isPlainObject(in) THEN createErr(st, "Expecting object", in)
  ELSE object_loop(alloc(st), self.shape, ForInKeys(self.shape), in, 1, <<>>,
                   st.next, loc)

(* Mutant of optional_parse: no test for an absent input. *)
optional_parse_always(st, self, in, loc) ==
  LET r == parse(self.schema, in, st, loc)
  IN IF r.st.raised # "" THEN r ELSE Ret(r.st, map(r.res, "from"))

optional_parse(st, self, in, loc) ==
  IF isNil(in) THEN Ret(st, Ok(None))
  ELSE LET r == parse(self.schema, in, st, loc)
       IN IF r.st.raised # "" THEN r ELSE Ret(r.st, map(r.res, "from"))

(* Mutant of defaulted_parse: the default is validated by the child. *)
defaulted_parse_checked(st, self, in, loc) ==
  IF isNil(in) THEN parse(self.schema, self.defaultValue, st, loc)
  ELSE parse(self.schema, in, st, loc)

defaulted_parse(st, self, in, loc) ==
  IF isNil(in) THEN Ret(st, Ok(self.defaultValue))
  ELSE parse(self.schema, in, st, loc)

(* ------------------------ mod.ts (schema part) ------------------------ *)
mod_createErr(st, message, in) ==
  Ret([alloc(st) EXCEPT !.heap =
         (st.next :> [path |-> <<>>, message |-> message, input |-> in]) @@ @],
      Err(st.next))

mod_isPlainObject(in) ==
  IF typeof(in) = "undefined" \/ in.t = "null" THEN FALSE
  ELSE LET proto == ObjectGetPrototypeOf(in)
       IN proto = "null" \/ proto = "Object.prototype"

mod_string == [src |-> "mod", type |-> "string", parse |-> "string"]
mod_number == [src |-> "mod", type |-> "number", parse |-> "number"]
mod_boolean == [src |-> "mod", type |-> "boolean", parse |-> "boolean"]
mod_date == [src |-> "mod", type |-> "date", parse |-> "date"]
mod_array(child) ==
  [src |-> "mod", type |-> "array<" \o child.type \o ">", parse |-> "array",
   schema |-> child]
mod_object(shape) ==
  [src |-> "mod", shape |-> shape, type |-> "object", parse |-> "object"]
mod_optional(child) ==
  Spread(child, [src |-> "mod", type |-> "option<" \o child.type \o ">",
                 parse |-> "optional", schema |-> child])
mod_defaulted(child, defaultValue) ==
  Spread(child, [src |-> "mod", type |-> child.type, parse |-> "defaulted",
                 schema |-> child, defaultValue |-> defaultValue])

mod_string_parse(st, in) ==
  IF typeof(in) = "string" THEN Ret(st, Ok(in))
  ELSE mod_createErr(st, "Not a string", in)

mod_number_parse(st, in) ==
  IF typeof(in) = "number" /\ NumberIsFinite(in) THEN Ret(st, Ok(in))
  ELSE mod_createErr(st, "Expecting finite number", in)

mod_boolean_parse(st, in) ==
  IF typeof(in) = "boolean" THEN Ret(st, Ok(in))
  ELSE mod_createErr(st, "Expecting boolean", in)

mod_date_parse(st, in) ==
  IF ~instanceofDate(in) THEN mod_createErr(st, "Expecting valid date", in)
  ELSE LET time == getTime(st, in)
       IN IF time.st.raised # "" THEN Ret(time.st, Thrown)
          ELSE IF NumberIsFinite(time.val)
          THEN Ret(alloc(st), Ok(DateV(st.next, time.val)))
          ELSE mod_createErr(st, "Expecting valid date", in)

(* The loop of mod.ts array.parse: result.isErr(), then result.unwrapErr()
   and Err(err), else result.unwrap().  A raised exception ends the call. *)
mod_array_loop(st, child, in, i, arr, ref, loc) ==
  IF ~(i < Len(in.items)) THEN Ret(st, Ok(Arr(ref, arr)))
  ELSE LET r == parse(child, in.items[i + 1], st, Append(loc, toString(i)))
       IN IF r.st.raised # "" THEN r
          ELSE IF isErr(r.res)
          THEN LET err == unwrapErr(r.st, r.res)
               IN IF err.st.raised # "" THEN Ret(err.st, r.res)
                  ELSE Ret(unshift(err.st, err.val, toString(i)), Err(err.val))
          ELSE LET v == unwrap(r.st, r.res)
               IN IF v.st.raised # "" THEN Ret(v.st, r.res)
                  ELSE mod_array_loop(v.st, child, in, i + 1,
                                      Append(arr, v.val), ref, loc)

mod_array_parse(st, self, in, loc) ==
  IF ~ArrayIsArray(in) THEN mod_createErr(st, "Expecting array", in)
  ELSE mod_array_loop(alloc(st), self.schema, in, 0, <<>>, st.next, loc)

mod_object_loop(st, shape, keys, in, j, entries, ref, loc) ==
  IF j > Len(keys) THEN Ret(st, Ok(Obj(ref, "null", entries)))
  ELSE LET key == keys[j]
           r == parse(Lookup(shape, key), GetProp(in, key), st,
                      Append(loc, key))
       IN IF r.st.raised # "" THEN r
          ELSE IF isErr(r.res)
          THEN LET err == unwrapErr(r.st, r.res)
               IN IF err.st.raised # "" THEN Ret(err.st, r.res)
                  ELSE Ret(unshift(err.st, err.val, key), Err(err.val))
          ELSE LET v == unwrap(r.st, r.res)
               IN IF v.st.raised # "" THEN Ret(v.st, r.res)
                  ELSE mod_object_loop(v.st, shape, keys, in, j + 1,
                                       Append(entries, Entry(key, v.val)),
                                       ref, loc)

mod_object_parse(st, self, in, loc) ==
  IF ~mod_isPlainObject(in) THEN mod_createErr(st, "Expecting object", in)
  ELSE mod_object_loop(alloc(st), self.shape, ForInKeys(self.shape), in, 1,
                       <<>>, st.next, loc)

mod_optional_parse(st, self, in, loc) ==
  IF typeof(in) = "undefined" \/ in.t = "null" THEN Ret(st, Ok(None))
  ELSE LET r == parse(self.schema, in, st, loc)
       IN IF r.st.raised # "" THEN r ELSE Ret(r.st, map(r.res, "Some"))

mod_defaulted_parse(st, self, in, loc) ==
  IF typeof(in) = "undefined" \/ in.t = "null"
  THEN Ret(st, Ok(self.defaultValue))
  ELSE parse(self.schema, in, st, loc)

(* ------------------------- schema.parse(input) ------------------------ *)
(* The call of a schema's parse closure.  loc is the location of the
   invocation relative to the root input; it is recorded in the log and
   read by nothing else. *)
parse(self, in, st, loc) ==
  LET s == [st EXCEPT !.log = Append(@, [loc |-> loc, type |-> self.type,
                                         parse |-> self.parse])]
  IN IF self.src = "schema"
     THEN CASE self.parse = "string" -> string_parse(s, in)
            [] self.parse = "number" -> number_parse(s, in)
            [] self.parse = "boolean" -> boolean_parse(s, in)
            [] self.parse = "date" -> date_parse(s, in)
            [] self.parse = "array" -> array_parse(s, self, in, loc)
            [] self.parse = "object" -> object_parse(s, self, in, loc)
            [] self.parse = "optional" -> optional_parse(s, self, in, loc)
            [] self.parse = "defaulted" -> defaulted_parse(s, self, in, loc)
     ELSE CASE self.parse = "string" -> mod_string_parse(s, in)
            [] self.parse = "number" -> mod_number_parse(s, in)
            [] self.parse = "boolean" -> mod_boolean_parse(s, in)
            [] self.parse = "date" -> mod_date_parse(s, in)
            [] self.parse = "array" -> mod_array_parse(s, self, in, loc)
            [] self.parse = "object" -> mod_object_parse(s, self, in, loc)
            [] self.parse = "optional" -> mod_optional_parse(s, self, in, loc)
            [] self.parse = "defaulted" -> mod_defaulted_parse(s, self, in, loc)

(* --------------------- schema trees built by a caller ----------------- *)
Prims(m) ==
  IF m = "schema" THEN {string, number, boolean, date}
  ELSE {mod_string, mod_number, mod_boolean, mod_date}
numberOf(m) == IF m = "schema" THEN number ELSE mod_number
stringOf(m) == IF m = "schema" THEN string ELSE mod_string
dateOf(m) == IF m = "schema" THEN date ELSE mod_date
arrayOf(m, s) == IF m = "schema" THEN array(s) ELSE mod_array(s)
objectOf(m, sh) == IF m = "schema" THEN object(sh) ELSE mod_object(sh)
optionalOf(m, s) == IF m = "schema" THEN optional(s) ELSE mod_optional(s)
defaultedOf(m, s, d) ==
  IF m = "schema" THEN defaulted(s, d) ELSE mod_defaulted(s, d)

(* Declared field names of the object literals given to object(). *)
KeySeqs == {<<"a", "b">>, <<"b", "1">>, <<"10", "2">>}

ShapeOf(ks, f) == [j \in 1..Len(ks) |-> Entry(ks[j], f[j])]

(* Children alternate number, string along the declared fields. *)
FlatShape(m, ks) ==
  ShapeOf(ks, [j \in 1..Len(ks) |->
                 IF j % 2 = 1 THEN numberOf(m) ELSE stringOf(m)])

WrappedSchema(m) ==
  objectOf(m, <<Entry("a", optionalOf(m, numberOf(m))),
                Entry("b", defaultedOf(m, stringOf(m), Str("d")))>>)

ItemsSchema(m) ==
  objectOf(m, <<Entry("items",
                      arrayOf(m, objectOf(m, <<Entry("n", numberOf(m))>>)))>>)

(* A date field declared before a string field. *)
DatedSchema == object(<<Entry("a", date), Entry("b", string)>>)

(* Field names on both sides of the largest array index: the first is an
   ordinary name, the second an array index. *)
LargeKeySchema ==
  object(<<Entry("4294967295", number), Entry(MaxArrayIndex, string)>>)

(* Nested fields named __proto__ (computed keys). *)
ProtoSchema ==
  object(<<Entry("__proto__", object(<<Entry("__proto__", number)>>))>>)

(* A field named like a method of Object.prototype. *)
InheritedSchema == object(<<Entry("toString", optional(number))>>)

SchemaTrees ==
  LET m == "schema" IN
  Prims(m)
    \cup {arrayOf(m, s) : s \in {number, date, optional(number)}}
    \cup {optional(number), optional(date), defaulted(date, Num(0))}
    \cup {defaulted(number, d) : d \in {Num(0), Str("1")}}
    \cup {object(FlatShape(m, ks)) : ks \in KeySeqs}
    \cup {WrappedSchema(m), ItemsSchema(m), DatedSchema, InheritedSchema,
          ProtoSchema, LargeKeySchema}

ModTrees ==
  LET m == "mod" IN
  Prims(m)
    \cup {mod_array(mod_number), mod_optional(mod_number),
          mod_optional(mod_date),
          mod_defaulted(mod_number, Num(0)),
          mod_object(FlatShape(m, <<"a", "b">>)), ItemsSchema(m)}

Schemas == SchemaTrees \cup ModTrees

(* ------------------------------ inputs -------------------------------- *)
ValidDate == DateV(0, Num(1))
InvalidDate == DateV(0, NaN)
(* Object.create(Date.prototype): an ordinary object, not a date. *)
FakeDate == Obj(0, "Date.prototype", <<>>)
(* The same with a property getTime of its own. *)
FakeDateWith(own) == Obj(0, "Date.prototype", <<Entry("getTime", own)>>)
Instance == Obj(0, "Class.prototype", <<Entry("a", Num(1))>>)

Leaves ==
  {Undefined, Null, Str("1"), Num(1), NaN, Infinity, NegInfinity, Bool(TRUE),
   ValidDate, InvalidDate, FakeDate, FakeDateWith(Fn("valueOf")),
   FakeDateWith(Num(1)), Instance}

Elems == {Num(1), Str("1")}

SeqsUpTo(S, n) == UNION {[1..k -> S] : k \in 0..n}

ArrayInputs == {Arr(0, items) : items \in SeqsUpTo(Elems, MaxLen)}

FlatObjects ==
  {Obj(0, "Object.prototype", ShapeOf(ks, f)) :
     ks \in KeySeqs, f \in [1..2 -> Elems]}

OtherObjects ==
  {Obj(0, "null", <<>>),
   Obj(0, "Object.prototype", <<Entry("a", Num(1))>>),
   Obj(0, "Object.prototype", <<Entry("a", Num(1)), Entry("z", Num(99))>>),
   Obj(0, "Object.prototype",
       <<Entry("items", Arr(0, <<Obj(0, "Object.prototype",
                                      <<Entry("n", Num(1))>>),
                                  Obj(0, "Object.prototype",
                                      <<Entry("n", Str("1"))>>)>>))>>),
   Obj(0, "Object.prototype",
       <<Entry("4294967295", Str("1")), Entry(MaxArrayIndex, Num(1))>>),
   Arr(0, <<Undefined, Num(1)>>),
   Arr(0, <<ValidDate, FakeDate>>),
   Obj(0, "Object.prototype",
       <<Entry("a", FakeDate), Entry("b", Num(1))>>)}

Inputs == Leaves \cup ArrayInputs \cup FlatObjects \cup OtherObjects

(* --------------------------- state machine ---------------------------- *)
(* The caller builds one schema tree, then calls schema.parse(input)
   repeatedly.  heap keeps every ParseError returned so far; before is
   the heap and the next free ref as they were when the last call began. *)
Init ==
  /\ schema \in Schemas
  /\ input = Undefined
  /\ result = Ok(Undefined)
  /\ heap = <<>>
  /\ before = [heap |-> <<>>, next |-> 1]
  /\ next = 1
  /\ log = <<>>
  /\ raised = ""
  /\ ncalls = 0
  /\ calls = <<>>

Validate(in) ==
  /\ ncalls < MaxCalls
  /\ LET r == parse(schema, in,
                    [heap |-> heap, next |-> next, log |-> <<>>,
                     raised |-> ""], <<>>)
     IN /\ result' = r.res
        /\ heap' = r.st.heap
        /\ next' = r.st.next
        /\ log' = r.st.log
        /\ raised' = r.st.raised
  /\ input' = in
  /\ before' = [heap |-> heap, next |-> next]
  /\ ncalls' = ncalls + 1
  /\ UNCHANGED <<schema, calls>>

Next == \E in \in Inputs : Validate(in)

Spec == Init /\ [][Next]_vars

(* -------------------------- interleaved calls ------------------------- *)
(* Several callers run schema.parse on one shared schema tree, and may
   pass the same input object.  The code runs each call to completion;
   here a call is a stack of frames, one per parse closure entered, and it
   advances one statement of schema.ts at a time, so that another call
   may run between any two statements.  Arrays and keyed objects (the
   inputs, a default value held by the tree, the arrays and objects under
   construction) and ParseErrors are cells of the one heap; a value
   refers to a cell by Ref, and every read of an object goes through the
   heap as it is at that moment.  The identity of a new object is new and
   nothing more: each caller numbers the objects it allocates from a
   range of its own, MaxAllocs wide. *)
Callers == 1..MaxCallers

(* A reference is to an array or to a plain keyed object: typeof gives
   "object", and it is no string, number, boolean or date. *)
Ref(id) == [t |-> "ref", ref |-> id]
Cur(h, v) == IF v.t = "ref" THEN h[v.ref] ELSE v

(* The value v with every reference replaced by what it refers to now,
   identities erased. *)
RECURSIVE Load(_, _)
Load(h, v) ==
  CASE v.t = "ref" -> Load(h, h[v.ref])
    [] v.t = "array" ->
         Arr(0, [j \in 1..Len(v.items) |-> Load(h, v.items[j])])
    [] v.t = "object" ->
         Obj(0, v.proto, [j \in 1..Len(v.entries) |->
                            Entry(v.entries[j].k, Load(h, v.entries[j].v))])
    [] v.t = "date" -> DateV(0, v.time)
    [] v.t = "option" -> [v EXCEPT !.value = Load(h, @)]
    [] OTHER -> v

(* The objects that exist before any call: cells 1 to 5 are inputs, cell
   6 is the default value held by DefaultSchema. *)
SharedHeap ==
  <<Arr(1, <<Num(1), Str("1")>>),
    Arr(2, <<Num(1)>>),
    Obj(3, "Object.prototype", <<Entry("a", Ref(1)), Entry("b", Ref(2))>>),
    Obj(4, "Object.prototype", <<Entry("a", Ref(2))>>),
    Arr(5, <<ValidDate, FakeDate>>),
    Arr(6, <<Num(0)>>)>>

SharedInputs == {Undefined, Ref(1), Ref(2), Ref(3), Ref(4), Ref(5)}

DefaultSchema == defaulted(array(number), Ref(6))

SharedSchemas ==
  {array(number), array(date), DefaultSchema,
   object(<<Entry("b", optional(array(number))),
            Entry("a", array(number))>>)}

(* One activation of a parse closure: its schema and input, where it
   stands (enter, loop, resume), the loop counter i, the cell acc of the
   array or object it builds, and the Result ret its child returned. *)
Frame(s, in) ==
  [schema |-> s, in |-> in, pc |-> "enter", i |-> 0, acc |-> 0,
   ret |-> Ok(Undefined)]

FirstRef(c) == Len(SharedHeap) + (c - 1) * MaxAllocs + 1

(* A caller: idle, running, returned or raised.  given is its input as it
   was when the call began; overlap tells that another call was running
   at that moment; next is the ref of the next object it allocates. *)
Idle(c) ==
  [status |-> "idle", input |-> Undefined, given |-> Undefined,
   stack |-> <<>>, result |-> Ok(Undefined), raised |-> "",
   overlap |-> FALSE, next |-> FirstRef(c)]

St(c) ==
  [heap |-> heap, next |-> calls[c].next, log |-> <<>>, raised |-> ""]
CanAlloc(c) == calls[c].next + 2 < FirstRef(c) + MaxAllocs
Top(c) == calls[c].stack[Len(calls[c].stack)]
At(c, kind, pc) ==
  /\ calls[c].status = "running"
  /\ Top(c).schema.parse = kind
  /\ Top(c).pc = pc

SetTop(call, f) == [call EXCEPT !.stack[Len(call.stack)] = f]
Enter(call, f, child) ==
  [call EXCEPT !.stack = Append([@ EXCEPT ![Len(@)] = f], child)]

(* return r.res from the top frame: to the frame below, or to the caller
   when the top frame is the root; an exception abandons every frame. *)
Return(call, r) ==
  IF r.st.raised # ""
  THEN [call EXCEPT !.status = "raised", !.raised = r.st.raised,
                    !.stack = <<>>]
  ELSE IF Len(call.stack) = 1
  THEN [call EXCEPT !.status = "returned", !.result = r.res, !.stack = <<>>]
  ELSE LET n == Len(call.stack) - 1
       IN [call EXCEPT !.stack =
             [SubSeq(call.stack, 1, n) EXCEPT ![n].ret = r.res,
                                              ![n].pc = "resume"]]

(* The variables of the sequential specification stay as they are. *)
Rest ==
  UNCHANGED <<schema, input, result, next, log, raised, ncalls, before>>

Returns(c, r) ==
  /\ heap' = r.st.heap
  /\ calls' = [calls EXCEPT ![c] = [Return(@, r) EXCEPT !.next = r.st.next]]

Goes(c, call) ==
  /\ calls' = [calls EXCEPT ![c] = call]
  /\ UNCHANGED heap

(* new Array(n) / Object.create(null): a new cell, kept in acc. *)
Allocates(c, f, cell) ==
  /\ heap' = (calls[c].next :> cell) @@ heap
  /\ calls' = [calls EXCEPT ![c] =
                 [SetTop(@, [f EXCEPT !.pc = "loop", !.acc = calls[c].next])
                    EXCEPT !.next = @ + 1]]

(* arr[i] = result.value / obj[key] = result.value, then the next turn of
   the loop. *)
Stores(c, f, cell) ==
  /\ heap' = [heap EXCEPT ![f.acc] = cell]
  /\ calls' = [calls EXCEPT ![c] =
                 SetTop(@, [f EXCEPT !.pc = "loop", !.i = f.i + 1])]

Begin(c, in) ==
  /\ calls[c].status = "idle"
  /\ Rest
  /\ Goes(c, [calls[c] EXCEPT !.status = "running", !.input = in,
                              !.given = Load(heap, in),
                              !.stack = <<Frame(schema, in)>>,
                              !.overlap = \E o \in Callers \ {c} :
                                            calls[o].status = "running"])

(* string, number, boolean, date: one local check. *)
Local(c) ==
  /\ calls[c].status = "running"
  /\ Top(c).schema.parse \in {"string", "number", "boolean", "date"}
  /\ CanAlloc(c)
  /\ Rest
  /\ Returns(c, parse(Top(c).schema, Top(c).in, St(c), <<>>))

(* array: lines 66-67, the loop test and the child call of lines 68-69,
   lines 70-74 once the child has returned. *)
ArrayEnter(c) ==
  /\ At(c, "array", "enter")
  /\ CanAlloc(c)
  /\ Rest
  /\ LET f == Top(c)
         in == Cur(heap, f.in)
     IN IF ~ArrayIsArray(in)
        THEN Returns(c, createErr(St(c), "Expecting array", f.in))
        ELSE Allocates(c, f, Arr(calls[c].next,
                                 [j \in 1..Len(in.items) |-> Undefined]))

ArrayLoop(c) ==
  /\ At(c, "array", "loop")
  /\ Rest
  /\ LET f == Top(c)
         in == Cur(heap, f.in)
     IN IF f.i < Len(in.items)
        THEN Goes(c, Enter(calls[c], f,
                           Frame(f.schema.schema, in.items[f.i + 1])))
        ELSE Returns(c, Ret(St(c), Ok(Ref(f.acc))))

ArrayResume(c) ==
  /\ At(c, "array", "resume")
  /\ Rest
  /\ LET f == Top(c)
     IN IF isErr(f.ret)
        THEN Returns(c, Ret(unshift(St(c), f.ret.error, toString(f.i)), f.ret))
        ELSE Stores(c, f, [heap[f.acc] EXCEPT !.items[f.i + 1] =
                                                 f.ret.value])

(* object: lines 86-87, the enumeration and the child call of lines
   88-89, lines 90-94 once the child has returned. *)
ObjectEnter(c) ==
  /\ At(c, "object", "enter")
  /\ CanAlloc(c)
  /\ Rest
  /\ LET f == Top(c)
     IN IF ~isPlainObject(Cur(heap, f.in))
        THEN Returns(c, createErr(St(c), "Expecting object", f.in))
        ELSE Allocates(c, f, Obj(calls[c].next, "null", <<>>))

ObjectLoop(c) ==
  /\ At(c, "object", "loop")
  /\ Rest
  /\ LET f == Top(c)
         keys == ForInKeys(f.schema.shape)
     IN IF f.i < Len(keys)
        THEN LET key == keys[f.i + 1]
             IN Goes(c, Enter(calls[c], f,
                              Frame(Lookup(f.schema.shape, key),
                                    GetProp(Cur(heap, f.in), key))))
        ELSE Returns(c, Ret(St(c), Ok(Ref(f.acc))))

ObjectResume(c) ==
  /\ At(c, "object", "resume")
  /\ Rest
  /\ LET f == Top(c)
         key == ForInKeys(f.schema.shape)[f.i + 1]
     IN IF isErr(f.ret)
        THEN Returns(c, Ret(unshift(St(c), f.ret.error, key), f.ret))
        ELSE Stores(c, f, [heap[f.acc] EXCEPT !.entries =
                                    Append(@, Entry(key, f.ret.value))])

(* optional: line 103, before and after schema.parse(input). *)
OptionalEnter(c) ==
  /\ At(c, "optional", "enter")
  /\ Rest
  /\ LET f == Top(c)
     IN IF isNil(Cur(heap, f.in)) THEN Returns(c, Ret(St(c), Ok(None)))
        ELSE Goes(c, Enter(calls[c], f, Frame(f.schema.schema, f.in)))

OptionalResume(c) ==
  /\ At(c, "optional", "resume")
  /\ Rest
  /\ Returns(c, Ret(St(c), map(Top(c).ret, "from")))

(* defaulted: line 111, before and after schema.parse(input). *)
DefaultedEnter(c) ==
  /\ At(c, "defaulted", "enter")
  /\ Rest
  /\ LET f == Top(c)
     IN IF isNil(Cur(heap, f.in))
        THEN Returns(c, Ret(St(c), Ok(f.schema.defaultValue)))
        ELSE Goes(c, Enter(calls[c], f, Frame(f.schema.schema, f.in)))

DefaultedResume(c) ==
  /\ At(c, "defaulted", "resume")
  /\ Rest
  /\ Returns(c, Ret(St(c), Top(c).ret))

InitInterleaved ==
  /\ schema \in SharedSchemas
  /\ heap = SharedHeap
  /\ next = 1
  /\ calls = [c \in Callers |-> Idle(c)]
  /\ input = Undefined
  /\ result = Ok(Undefined)
  /\ before = [heap |-> <<>>, next |-> 1]
  /\ log = <<>>
  /\ raised = ""
  /\ ncalls = 0

NextInterleaved ==
  \E c \in Callers :
    \/ \E in \in SharedInputs : Begin(c, in)
    \/ Local(c)
    \/ ArrayEnter(c)
    \/ ArrayLoop(c)
    \/ ArrayResume(c)
    \/ ObjectEnter(c)
    \/ ObjectLoop(c)
    \/ ObjectResume(c)
    \/ OptionalEnter(c)
    \/ OptionalResume(c)
    \/ DefaultedEnter(c)
    \/ DefaultedResume(c)

Interleaved == InitInterleaved /\ [][NextInterleaved]_vars

(* ===================== definitions used by the claims ================= *)
Called == ncalls > 0
Returned == Called /\ raised = ""
Failed == Returned /\ isErr(result)
Succeeded == Returned /\ isOk(result)
TheError == heap[result.error]

Fresh == [heap |-> <<>>, next |-> 1, log |-> <<>>, raised |-> ""]

RECURSIVE EraseRefs(_)
EraseRefs(v) ==
  CASE v.t = "array" ->
         Arr(0, [j \in 1..Len(v.items) |-> EraseRefs(v.items[j])])
    [] v.t = "object" ->
         Obj(0, v.proto, [j \in 1..Len(v.entries) |->
                            Entry(v.entries[j].k, EraseRefs(v.entries[j].v))])
    [] v.t = "date" -> DateV(0, v.time)
    [] v.t = "option" -> [v EXCEPT !.value = EraseRefs(@)]
    [] OTHER -> v

NoError == [path |-> <<>>, message |-> "", input |-> Undefined]

(* The outcome of a call: the exception that escaped it, or else its
   Result with the error read from the heap and the identities of the
   objects the engine allocated erased. *)
View(res, st) ==
  IF st.raised # ""
  THEN [ok |-> FALSE, value |-> Undefined, error |-> NoError,
        raised |-> st.raised]
  ELSE [ok |-> res.ok, value |-> EraseRefs(res.value),
        error |-> IF res.ok THEN NoError ELSE st.heap[res.error],
        raised |-> ""]

(* Schema s run alone on v. *)
Alone(s, v) ==
  LET r == parse(s, v, Fresh, <<>>) IN View(r.res, r.st)

Outcome == View(result, [heap |-> heap, raised |-> raised])

(* Refs the engine allocated during the last call. *)
NewRef(ref) == ref >= before.next /\ ref < next

(* What each local check accepts, as the specification states it. *)
Accepts(s, v) ==
  CASE s.parse = "string" -> v.t = "string"
    [] s.parse = "number" -> v.t = "number" /\ v.kind = "finite"
    [] s.parse = "boolean" -> v.t = "boolean"
    [] s.parse = "date" -> v.t = "date" /\ v.time.kind = "finite"
    [] s.parse = "array" -> v.t = "array"
    [] s.parse = "object" ->
         v.t = "object" /\ v.proto \in {"null", "Object.prototype"}

RECURSIVE Unwrapped(_)
Unwrapped(s) ==
  IF s.parse \in {"optional", "defaulted"} THEN Unwrapped(s.schema) ELSE s

(* path is a chain of one segment per array or object validator, outermost
   first, from schema s and value v down to a local check that rejects. *)
RECURSIVE PathToFailure(_, _, _)
PathToFailure(s, v, path) ==
  LET u == Unwrapped(s) IN
  IF path = <<>> THEN ~Accepts(u, v)
  ELSE CASE u.parse = "array" ->
              /\ v.t = "array"
              /\ \E i \in 0..(Len(v.items) - 1) :
                   /\ Head(path) = toString(i)
                   /\ PathToFailure(u.schema, v.items[i + 1], Tail(path))
         [] u.parse = "object" ->
              /\ Accepts(u, v)
              /\ HasKey(u.shape, Head(path))
              /\ PathToFailure(Lookup(u.shape, Head(path)),
                               GetProp(v, Head(path)), Tail(path))
         [] OTHER -> FALSE

(* The sub-value reached from v by following path: the element at an
   array index, the value stored under a field name, absent (undefined)
   for a key the object does not hold. *)
RECURSIVE Follow(_, _)
Follow(v, path) ==
  IF path = <<>> THEN v
  ELSE IF v.t = "array"
       THEN LET hit == {i \in 1..Len(v.items) : toString(i - 1) = Head(path)}
            IN IF hit = {} THEN Undefined
               ELSE Follow(v.items[CHOOSE i \in hit : TRUE], Tail(path))
       ELSE IF v.t = "object" THEN Follow(OwnProp(v, Head(path)), Tail(path))
       ELSE Undefined

(* The schema node reached from s by following path through the tree. *)
RECURSIVE SchemaAt(_, _)
SchemaAt(s, path) ==
  LET u == Unwrapped(s) IN
  IF path = <<>> THEN u
  ELSE IF u.parse = "array" THEN SchemaAt(u.schema, Tail(path))
       ELSE SchemaAt(Lookup(u.shape, Head(path)), Tail(path))

(* ------------------------------- C1 ----------------------------------- *)
(* C1: whenever a call returns Err, the error's path has exactly one
   segment per array or object validator enclosing the failing check, the
   stringified zero-based index for an array and the field name for an
   object, outermost first; optional and defaulted add no segment. *)
C1_PathRootToLeaf ==
  Failed => PathToFailure(schema, input, TheError.path)

C1_Witness ==
  /\ Failed
  /\ schema = ItemsSchema("schema")
  /\ TheError.path = <<"items", "1", "n">>

(* ------------------------------- C2 ----------------------------------- *)
IndexSegs(n) == [j \in 1..n |-> toString(j - 1)]

(* The invocations of the root schema's direct child, in order, each by
   the segment (array index or field name) it was invoked at. *)
ChildVisits(child) ==
  LET hits == SelectSeq(log, LAMBDA en : /\ Len(en.loc) = 1
                                         /\ en.type = child.type
                                         /\ en.parse = child.parse)
  IN [j \in 1..Len(hits) |-> hits[j].loc[1]]

(* No schema at all was invoked below a segment outside segs. *)
OnlyBelow(segs) ==
  \A j \in 1..Len(log) : Len(log[j].loc) >= 1 => log[j].loc[1] \in segs

Range(f) == {f[j] : j \in DOMAIN f}

(* C2: array(elementSchema) on a sequence visits the elements in index
   order and stops at the first failure: the result is Err, the child's
   error for the smallest index i the child does not accept with
   toString(i) prepended to its path, and no index above i is visited;
   with every element accepted the result is Ok of a newly allocated
   sequence of the child values, same length and order. *)
C2_ArrayFirstFailure ==
  (Called /\ schema.parse = "array" /\ ArrayIsArray(input)) =>
    LET child == schema.schema
        n == Len(input.items)
        alone == [j \in 1..n |-> Alone(child, input.items[j])]
        bad == {j \in 1..n : ~alone[j].ok}
    IN /\ raised = ""
       /\ IF bad # {}
          THEN LET i == CHOOSE j \in bad : \A o \in bad : j <= o
               IN /\ isErr(result)
                  /\ TheError.path = <<toString(i - 1)>> \o alone[i].error.path
                  /\ TheError.message = alone[i].error.message
                  /\ TheError.input = alone[i].error.input
                  /\ ChildVisits(child) = IndexSegs(i)
                  /\ OnlyBelow(Range(IndexSegs(i)))
          ELSE /\ isOk(result)
               /\ result.value.t = "array"
               /\ NewRef(result.value.ref)
               /\ Len(result.value.items) = n
               /\ \A j \in 1..n :
                    EraseRefs(result.value.items[j]) = alone[j].value
               /\ ChildVisits(child) = IndexSegs(n)

(* ------------------------------- C3 ----------------------------------- *)
Position(seq, x) == CHOOSE j \in 1..Len(seq) : seq[j] = x

(* The fields of the root object schema whose child does not accept
   input[k]: it rejects, or an exception escapes it. *)
RejectedFields ==
  {k \in Range(Keys(schema.shape)) :
     ~Alone(Lookup(schema.shape, k), GetProp(input, k)).ok}

ObjectCall == Called /\ schema.parse = "object" /\ isPlainObject(input)

(* C3: on a plain keyed input the fields are checked in their declared
   order: when a call returns and some field's child rejects input[k],
   the result is Err, the error's first segment is the first DECLARED
   field whose child rejects, and no child of a field declared after it
   is invoked. *)
C3_DeclaredOrder ==
  (ObjectCall /\ raised = "" /\ RejectedFields # {}) =>
    LET decl == Keys(schema.shape)
        k == CHOOSE f \in RejectedFields :
               \A o \in RejectedFields : Position(decl, f) <= Position(decl, o)
    IN /\ isErr(result)
       /\ Head(TheError.path) = k
       /\ OnlyBelow({f \in Range(decl) : Position(decl, f) <= Position(decl, k)})

(* ------------------------------- C4 ----------------------------------- *)
(* C4: when object(shape) returns Ok(v), v is a new keyed structure whose
   keys are exactly the shape's field names, each holding its child's Ok
   value (also for fields missing from the input); no other key of the
   input appears in v. *)
C4_ExactlyShapeFields ==
  (Succeeded /\ schema.parse = "object") =>
    LET v == result.value
        names == Range(Keys(schema.shape))
    IN /\ v.t = "object"
       /\ NewRef(v.ref)
       /\ Range(Keys(v.entries)) = names
       /\ Len(v.entries) = Cardinality(names)
       /\ \A k \in names :
            LET c == Alone(Lookup(schema.shape, k), GetProp(input, k))
            IN c.ok /\ EraseRefs(OwnProp(v, k)) = c.value

C4_Witness ==
  /\ Succeeded
  /\ schema = WrappedSchema("schema")
  /\ input = Obj(0, "Object.prototype",
                 <<Entry("a", Num(1)), Entry("z", Num(99))>>)
  /\ Keys(result.value.entries) = <<"a", "b">>
  /\ OwnProp(result.value, "b") = Str("d")

(* ------------------------------- C5 ----------------------------------- *)
(* C5: optional(schema) on null or undefined returns Ok(None) without
   invoking the child; otherwise it returns Ok(Some(v)) exactly when the
   child returns Ok(v), and the child's error (path, message and input
   unchanged) when the child returns Err. *)
C5_Optional ==
  (Called /\ schema.parse = "optional") =>
    IF input.t \in {"null", "undefined"}
    THEN Returned /\ result = Ok(None) /\ Len(log) = 1
    ELSE LET c == Alone(schema.schema, input)
         IN /\ Len(log) >= 2
            /\ IF c.ok THEN Outcome = [c EXCEPT !.value = Some(c.value)]
               ELSE Outcome = c

C5_Witness ==
  /\ Succeeded
  /\ schema = optional(number)
  /\ input = Num(1)
  /\ result.value = Some(Num(1))

(* ------------------------------- C6 ----------------------------------- *)
(* C6: defaulted(schema, defaultValue) on null or undefined returns
   Ok(defaultValue), whatever the default, without invoking the child;
   otherwise it returns exactly what the child returns; its type label is
   the child's. *)
C6_Defaulted ==
  (Called /\ schema.parse = "defaulted") =>
    /\ schema.type = schema.schema.type
    /\ IF input.t \in {"null", "undefined"}
       THEN Returned /\ result = Ok(schema.defaultValue) /\ Len(log) = 1
       ELSE Outcome = Alone(schema.schema, input) /\ Len(log) >= 2

C6_Witness ==
  /\ Succeeded
  /\ schema = defaulted(number, Str("1"))
  /\ input = Undefined
  /\ result.value = Str("1")
  /\ ~Alone(number, Str("1")).ok

(* ------------------------------- C7 ----------------------------------- *)
SpecMessage(s) ==
  CASE s.parse = "string" -> "Expecting string"
    [] s.parse = "number" -> "Expecting number"
    [] s.parse = "boolean" -> "Expecting boolean"
    [] s.parse = "date" -> "Expecting valid date"

(* C7: each primitive schema is one predicate check: it accepts exactly
   the strings / finite numbers / booleans / dates with a finite time,
   returns Ok of the value on acceptance, and on rejection Err with empty
   path and the fixed message "Expecting string", "Expecting number",
   "Expecting boolean" or "Expecting valid date". *)
C7_Primitives ==
  (Called /\ schema.parse \in {"string", "number", "boolean", "date"}) =>
    /\ raised = ""
    /\ IF Accepts(schema, input)
       THEN isOk(result) /\ EraseRefs(result.value) = EraseRefs(input)
       ELSE /\ isErr(result)
            /\ TheError.path = <<>>
            /\ TheError.message = SpecMessage(schema)

(* ------------------------------- C8 ----------------------------------- *)
(* C8: every call returns Ok or Err(ParseError); no call raises, and none
   reaches unwrap / unwrapErr on the wrong variant. *)
C8_NeverRaises ==
  Called =>
    /\ raised = ""
    /\ isErr(result) =>
         /\ result.error \in DOMAIN heap
         /\ DOMAIN TheError = {"path", "message", "input"}

(* ------------------------------- C9 ----------------------------------- *)
RECURSIVE LoadSchema(_, _)
LoadSchema(h, s) ==
  CASE s.parse = "array" -> [s EXCEPT !.schema = LoadSchema(h, @)]
    [] s.parse = "optional" -> [s EXCEPT !.schema = LoadSchema(h, @)]
    [] s.parse = "defaulted" ->
         [s EXCEPT !.schema = LoadSchema(h, @),
                   !.defaultValue = Load(h, @)]
    [] s.parse = "object" ->
         [s EXCEPT !.shape = [j \in 1..Len(s.shape) |->
                                Entry(s.shape[j].k,
                                      LoadSchema(h, s.shape[j].v))]]
    [] OTHER -> s

Finished(c) == calls[c].status \in {"returned", "raised"}

(* What caller c was handed, read from the heap as it is now. *)
OutcomeOf(c) ==
  LET res == calls[c].result IN
  IF calls[c].status = "raised"
  THEN [ok |-> FALSE, value |-> Undefined, error |-> NoError,
        raised |-> calls[c].raised]
  ELSE [ok |-> res.ok, value |-> Load(heap, res.value),
        error |-> IF res.ok THEN NoError
                  ELSE [heap[res.error] EXCEPT !.input = Load(heap, @)],
        raised |-> ""]

(* C9: under every interleaving of the calls on one shared schema tree,
   (a) no object that existed before the calls (the inputs, the value the
   tree holds) is modified, and the tree is the tree that was built;
   (b) the input of every call is as it was when the call began;
   (c) what a finished call was handed is, at every later moment, what
   the same call returns when it runs alone from the initial heap;
   (d) two calls never return the same ParseError object. *)
C9_CallsIndependent ==
  /\ \A id \in DOMAIN SharedHeap : heap[id] = SharedHeap[id]
  /\ schema \in SharedSchemas
  /\ LoadSchema(heap, schema) = LoadSchema(SharedHeap, schema)
  /\ \A c \in Callers :
       /\ calls[c].status # "idle" =>
            Load(heap, calls[c].input) = calls[c].given
       /\ Finished(c) =>
            OutcomeOf(c) = Alone(LoadSchema(SharedHeap, schema),
                                 Load(SharedHeap, calls[c].input))
       /\ \A d \in Callers \ {c} :
            (calls[c].status = "returned" /\ isErr(calls[c].result)
             /\ calls[d].status = "returned" /\ isErr(calls[d].result))
              => calls[c].result.error # calls[d].result.error

(* Two calls on the same input array overlapped, and both returned their
   own error for index 1. *)
C9_Witness ==
  /\ schema = array(number)
  /\ \A c \in Callers :
       /\ calls[c].status = "returned"
       /\ calls[c].input = Ref(1)
       /\ isErr(calls[c].result)
       /\ heap[calls[c].result.error].path = <<"1">>
  /\ \E c \in Callers : calls[c].overlap

(* ------------------------------- C10 ---------------------------------- *)
(* C10: whenever a call returns Err(e), e.input is the sub-value reached
   from the root input by following e.path, absent for a key the input
   does not hold (the root itself only when the path is empty), and
   e.message is the message of the local check, at that place of the
   schema tree, that rejects this sub-value. *)
C10_InputAtPath ==
  Failed =>
    LET e == TheError
        site == SchemaAt(schema, e.path)
        local == Alone(site, e.input)
    IN /\ e.input = Follow(input, e.path)
       /\ (e.input = input) <=> (e.path = <<>>)
       /\ ~Accepts(site, e.input)
       /\ ~local.ok
       /\ local.error = [path |-> <<>>, message |-> e.message,
                         input |-> e.input]
====
